---- MODULE Spec2Model ----
(***************************************************************************)
(* Job orchestration of the music downloader backend (backend/app.py):     *)
(* the two process-wide stores download_status and album_download_status,  *)
(* the request handlers that write them, the background tasks              *)
(* download_and_process / download_album_track, and the retrieval of a     *)
(* staged file (download_file, cleanup_temp_file).                         *)
(*                                                                         *)
(* Scheduling.  add_task appends a task to the BackgroundTasks of the       *)
(* request.  After the response is sent the tasks of one request run in    *)
(* the order they were added, each after the one before it has returned;   *)
(* a task that is a plain function runs in a worker thread, so the tasks   *)
(* of different requests, and the request handlers, run concurrently.  A   *)
(* step of the model is one store access (a dict assignment or a dict      *)
(* read) together with the collaborator calls that precede it;             *)
(* `d[k]["n"] += 1` is a read step followed by a write step.  A request    *)
(* handler runs on the event loop, one handler at a time, beside the       *)
(* worker threads.                                                         *)
(*                                                                         *)
(* The candidate scoring of debug_ytmusic_scoring.py (score_results and    *)
(* the five signals it combines) is modelled in fixed-point arithmetic.    *)
(***************************************************************************)
EXTENDS Integers, Sequences, FiniteSets, TLC

\* ------------------------------------------------------------------ bounds
MaxTasks == 2        \* background tasks ever scheduled by submissions
MaxRequests == 2     \* submission requests ever received
MaxFileTasks == 1    \* tasks scheduled where files are retrieved (SpecFile)
MaxRetrievals == 2   \* retrievals (download_file) ever accepted
MaxResults == 3      \* search results handed to score_results

\* ------------------------------------------------------- the catalog (input)
None == "none"       \* Python None, and a key that a dict does not hold

Tracks == {"t1", "t2"}
Albums == {"a0", "a1", "a2"}

\* get_album_details(album_id)['tracks'], as ids: an empty album, a single and
\* an album of two distinct tracks.
AlbumTracks(a) ==
    CASE a = "a0" -> << >>
      [] a = "a1" -> << "t1" >>
      [] a = "a2" -> << "t1", "t2" >>

RequestLocations == {"local", "navidrome", "cloud"}

\* ------------------------------------------------------------------- state
VARIABLES
    download_status,        \* app.py:113  track id -> JobRecord (NoJob: no such key)
    album_download_status,  \* app.py:338  album id -> AlbumRecord (NoAlbum: no such key)
    tasks,                  \* the background tasks scheduled so far, in order
    files,                  \* the paths that exist on disk
    retrievals,             \* the download_file requests received so far
    http,                   \* the last request answered and its status code
    nreq,                   \* number of submission requests received
    handling,               \* the album submission download_album is working on
    scoring                 \* a call of score_results: its arguments and its result

vars == << download_status, album_download_status, tasks, files, retrievals, http, nreq,
           handling, scoring >>

\* ----------------------------------------------------------------- records
\* A JobRecord is the dict stored under download_status[track_id]; a key the
\* dict literal does not set is None here.
Job(status, message, stage, progress) ==
    [status |-> status, message |-> message, stage |-> stage, progress |-> progress,
     file_path |-> None, download_url |-> None, album_id |-> None]

\* track_id not in download_status
NoJob == Job(None, None, None, 0)

\* os.path.join(config.DOWNLOAD_DIR, "temp")
TempDir == "downloads/temp"

\* get_download_path(track_info, temp_dir, format)
StagedPath(t) == TempDir \o "/" \o t

\* navidrome_service.get_target_path: <music path>/<artist>/<album>/<file>
LibraryDir(t) ==
    CASE t = "t1" -> "music/artist/album"
      [] t = "t2" -> "music/artist/contemporary"

LibraryPath(t) == LibraryDir(t) \o "/" \o t

\* request.location not in ["local", "navidrome"] -> "local"
ValidLocation(loc) == IF loc \in {"local", "navidrome"} THEN loc ELSE "local"

LocationMsg(loc) == IF loc = "local" THEN "local downloads folder" ELSE "Navidrome server"

\* download_track's initial record
TrackQueuedRecord(loc) ==
    Job("queued", "Download queued for " \o LocationMsg(loc), "queued", 0)

\* download_album's initial record of a member track
AlbumQueuedRecord(a) ==
    [Job("queued", "Queued (Album: " \o a \o ")", "queued", 0) EXCEPT !.album_id = a]

\* download_album's initial AlbumRecord
NewAlbumRecord(a) ==
    [status |-> "downloading",
     album_name |-> a,
     total_tracks |-> Len(AlbumTracks(a)),
     completed_tracks |-> 0,
     failed_tracks |-> 0,
     current_track |-> None,
     track_ids |-> AlbumTracks(a)]

\* album_id not in album_download_status
NoAlbum ==
    [status |-> None, album_name |-> None, total_tracks |-> 0, completed_tracks |-> 0,
     failed_tracks |-> 0, current_track |-> None, track_ids |-> << >>]

\* The records download_and_process writes, by the line that writes them.
FetchingRecord == Job("processing", "Fetching track info...", "fetching", 10)
NoTrackInfoRecord == Job("error", "Could not fetch track information", None, 0)
PreparingRecord == Job("processing", "Preparing download location...", "preparing", 15)
DownloadingRecord == Job("processing", "Searching YouTube and downloading...", "downloading", 30)
DownloadFailedRecord == Job("error", "Download failed", None, 0)
TaggingRecord == Job("processing", "Applying metadata...", "tagging", 85)
CopyingRecord == Job("processing", "Copying to Navidrome library...", "copying", 90)
LibraryCompletedRecord(t) ==
    [Job("completed", "Track successfully added to Navidrome library", "completed", 100)
        EXCEPT !.file_path = LibraryPath(t)]
LibraryCaveatRecord(t) ==
    [Job("completed", "Track added to library (scan may need manual trigger)", "completed", 100)
        EXCEPT !.file_path = LibraryPath(t)]
CopyFailedRecord == Job("error", "Failed to copy to Navidrome", None, 0)
UncaughtRecord == Job("error", "Error", None, 0)

\* -------------------------------------------------------------- file names
\* A file name is a sequence of characters.  TrackFileName(t) is the basename
\* of the path the collaborators produce for track t: a name with a space and
\* a name that holds a percent sign followed by two hex digits.
TrackFileName(t) ==
    CASE t = "t1" -> << "x", " ", "x" >>
      [] t = "t2" -> << "x", "%", "2", "5" >>

\* os.path.basename of a staged or library path
Basename(path) ==
    TrackFileName(CHOOSE t \in Tracks : path \in {StagedPath(t), LibraryPath(t)})

HexDigits == {"0", "2", "5"}

\* chr(int(a + b, 16)) for the hex digits of the alphabet
HexChar(a, b) ==
    CASE a = "2" /\ b = "0" -> " "
      [] a = "2" /\ b = "2" -> "\""
      [] a = "2" /\ b = "5" -> "%"
      [] a = "5" /\ b = "0" -> "P"
      [] a = "5" /\ b = "2" -> "R"
      [] a = "5" /\ b = "5" -> "U"
      [] OTHER -> "^" \o a \o b          \* a control character

\* urllib.parse.quote(name, safe=''): letters and digits stay, every other
\* character becomes %XX
RECURSIVE quote(_)
quote(name) ==
    IF name = << >> THEN << >>
    ELSE (CASE Head(name) = " " -> << "%", "2", "0" >>
            [] Head(name) = "%" -> << "%", "2", "5" >>
            [] OTHER -> << Head(name) >>) \o quote(Tail(name))

\* urllib.parse.unquote(name): every %XX with two hex digits becomes the
\* character, left to right, the output is not scanned again; a % that is not
\* followed by two hex digits stays
RECURSIVE unquote(_)
unquote(name) ==
    IF name = << >> THEN << >>
    ELSE IF /\ Head(name) = "%"
            /\ Len(name) >= 3
            /\ name[2] \in HexDigits
            /\ name[3] \in HexDigits
         THEN << HexChar(name[2], name[3]) >> \o unquote(SubSeq(name, 4, Len(name)))
         ELSE << Head(name) >> \o unquote(Tail(name))

\* the characters of a name as one string
RECURSIVE Text(_)
Text(name) == IF name = << >> THEN "" ELSE Head(name) \o Text(Tail(name))

\* the completed record of a local-target job
LocalCompletedRecord(t) ==
    [Job("completed", "Track ready for download", "completed", 100)
        EXCEPT !.file_path = StagedPath(t),
               !.download_url = "/api/download/file/" \o t \o "?filename="
                                    \o Text(quote(Basename(StagedPath(t))))]

\* ------------------------------------------------------------------- tasks
\* One scheduled background task.  writes and calls are the history of this
\* run: the (stage, progress) pairs it stored (the submission's queued record
\* first) and the collaborators it invoked; failed_at is the length of calls
\* when a step of the run first failed (0: none has), escaped says that an
\* exception left download_and_process, result is the status of the run's
\* last record.  request is the number of the request that added the task.
NewTask(kind, t, loc, a, request) ==
    [kind |-> kind, track_id |-> t, location |-> loc, album_id |-> a, request |-> request,
     pc |-> IF kind = "album" THEN "at_start" ELSE "dp_start",
     writes |-> << << "queued", 0 >> >>,
     calls |-> << >>,
     failed_at |-> 0,
     escaped |-> FALSE,
     result |-> None,
     counter |-> None,
     count |-> 0]

TaskIds == 1 .. Len(tasks)

\* The album submission in progress: its album, its location, the number of
\* its request and the index of the next member to queue.
Handling(a, loc, request, next) ==
    [album_id |-> a, location |-> loc, request |-> request, next |-> next]

\* no request handler is running on the event loop
Idle == Handling(None, None, 0, 0)

\* What a request handler answered: the endpoint, the status code and, for a
\* retrieval, the track id and the file name the request supplied.
Response(endpoint, code, track_id, filename) ==
    [endpoint |-> endpoint, code |-> code, track_id |-> track_id, filename |-> filename]

\* ------------------------------------------------ scoring (debug_ytmusic_scoring.py)
\* line 49, in thousandths
CONFIDENCE_THRESHOLD == 650

\* Scores are fixed-point numbers: One stands for 1.0, so a unit is 1e-6.  The
\* similarity ratios and the substring tests of the strings are inputs of the
\* model (what SequenceMatcher.ratio() and `in` gave for the normalized
\* strings), on a grid of 1e-4; exp() is tabulated to 1e-6.
One == 1000000

Min(a, b) == IF a <= b THEN a ELSE b
Max(a, b) == IF a >= b THEN a ELSE b

\* max(0.0, min(x, 1.0))
Clamp01(x) == Max(0, Min(x, One))

\* round(x, 3) of a score in units of 1/(1000 * unit): the nearest thousandth,
\* a tie to the even one
Round3(x, unit) ==
    LET q == x \div unit
        r == x % unit
    IN  IF 2 * r > unit \/ (2 * r = unit /\ q % 2 = 1) THEN q + 1 ELSE q

\* title_score, lines 100-118, from sim = calculate_similarity(a, b), the
\* number of tokens of ts found in b, len(ts), and `a and a in b`
title_score(sim, hits, total, title_in) ==
    LET contain == (hits * One) \div total
        blended == IF total > 0
                   THEN Max(sim, (55 * sim + 45 * contain) \div 100)
                   ELSE sim
        floored == IF title_in THEN Max(blended, 850000) ELSE blended
    IN  Clamp01(floored)

\* lines 142-146: one trusted artist against yt_blob
ArtistSim(artist) ==
    Clamp01(IF artist.name_in THEN Max(artist.sim, 950000) ELSE artist.sim)

RECURSIVE BestSim(_)
BestSim(artists) ==
    IF artists = << >> THEN 0 ELSE Max(ArtistSim(Head(artists)), BestSim(Tail(artists)))

\* sum(1 for _, s in per if s >= 0.75)
Matched(artists) ==
    Cardinality({k \in 1 .. Len(artists) : ArtistSim(artists[k]) >= 750000})

\* artist_score, lines 135-162: the score (its first result)
artist_score(artists) ==
    LET bonus == IF Matched(artists) >= 2 THEN 80000
                 ELSE IF Matched(artists) = 1 THEN 20000 ELSE 0
    IN  IF artists = << >> THEN 0 ELSE Clamp01(BestSim(artists) + bonus)

\* int(field) for the fields of the duration texts of the model; a field that
\* is not listed is not an integer literal and int() raises
IntFields == {"0", "00", "1", "3", "4", "06", "10", "54"}

int(field) ==
    CASE field \in {"0", "00"} -> 0
      [] field = "1" -> 1
      [] field = "3" -> 3
      [] field = "4" -> 4
      [] field = "06" -> 6
      [] field = "10" -> 10
      [] field = "54" -> 54

\* A duration text is the sequence of its fields between the colons, the
\* empty text is << >>.  Lines 165-176: whether parse_duration_to_seconds
\* returns a number ...
Parses(text) ==
    /\ Len(text) \in {2, 3}
    /\ \A k \in 1 .. Len(text) : text[k] \in IntFields

\* ... and the number
parse_duration_to_seconds(text) ==
    IF Len(text) = 2 THEN int(text[1]) * 60 + int(text[2])
    ELSE int(text[1]) * 3600 + int(text[2]) * 60 + int(text[3])

Abs(x) == IF x < 0 THEN 0 - x ELSE x

\* duration_score with 0.85 up to a delta of 30 s.
duration_score_wide_bucket(known, spotify_duration_ms, text) ==
    IF ~known \/ spotify_duration_ms = 0 THEN 500000
    ELSE IF ~Parses(text) THEN 500000
    ELSE LET sp_ms == Max(1000, spotify_duration_ms)
             delta == Abs(sp_ms - 1000 * parse_duration_to_seconds(text))
         IN  IF delta <= 5000 THEN 1000000
             ELSE IF delta <= 30000 THEN 850000
             ELSE IF delta <= 60000 THEN 350000
             ELSE 0

\* duration_score, lines 179-198.  spotify_duration_ms is None (known = FALSE)
\* or an integer; delta is kept in milliseconds.
duration_score(known, spotify_duration_ms, text) ==
    IF ~known \/ spotify_duration_ms = 0 THEN 500000
    ELSE IF ~Parses(text) THEN 500000
    ELSE LET sp_ms == Max(1000, spotify_duration_ms)
             delta == Abs(sp_ms - 1000 * parse_duration_to_seconds(text))
         IN  IF delta <= 5000 THEN 1000000
             ELSE IF delta <= 15000 THEN 850000
             ELSE IF delta <= 30000 THEN 650000
             ELSE IF delta <= 60000 THEN 350000
             ELSE 0

\* the values of rank_strength the model calls score_results with, in
\* thousandths: the default 6.0, 1.0 and 0.001
Strengths == {6000, 1000, 1}

\* math.exp(-(r - 1) / strength) to six places; with strength 0.001 the
\* argument is -1000 or less from rank 2 on and the double result is 0.0
Exp(r, strength) ==
    CASE strength = 6000 ->
           (CASE r = 1 -> 1000000 [] r = 2 -> 846482 [] r = 3 -> 716531
              [] r = 4 -> 606531 [] r = 5 -> 513417 [] r = 6 -> 434598
              [] OTHER -> 367879)
      [] strength = 1000 ->
           (CASE r = 1 -> 1000000 [] r = 2 -> 367879 [] r = 3 -> 135335
              [] r = 4 -> 49787 [] r = 5 -> 18316 [] r = 6 -> 6738
              [] OTHER -> 2479)
      [] strength = 1 ->
           (IF r = 1 THEN 1000000 ELSE 0)

\* rank_prior that grows with the rank.
rank_prior_growing(rank, strength) == Exp(Max(1, 8 - rank), strength)

\* rank_prior, lines 201-205
rank_prior(rank, strength) == Exp(Max(1, rank), strength)

\* heuristic_adjustment without the cover penalty.
heuristic_adjustment_no_cover_penalty(sp, yt) ==
    (IF sp.live /\ yt.live THEN 50000 ELSE 0)
    - (IF yt.remix /\ ~sp.remix THEN 100000 ELSE 0)

\* heuristic_adjustment, lines 208-228, from the markers found in the two
\* normalized titles
heuristic_adjustment(sp, yt) ==
    (IF sp.live /\ yt.live THEN 50000 ELSE 0)
    - (IF yt.cover /\ ~sp.cover THEN 120000 ELSE 0)
    - (IF yt.remix /\ ~sp.remix THEN 100000 ELSE 0)

\* Combine without the clamp of line 312.
Combine_unclamped(t_s, a_s, d_s, r_s, heur) ==
    45 * t_s + 25 * a_s + 20 * d_s + 10 * r_s + 100 * heur

\* Combine with the title weighted 0.55 and the artist 0.15.
Combine_other_weights(t_s, a_s, d_s, r_s, heur) ==
    Max(0, Min(55 * t_s + 15 * a_s + 20 * d_s + 10 * r_s + 100 * heur, 100 * One))

\* lines 311-312, in units of 1e-8
Combine(t_s, a_s, d_s, r_s, heur) ==
    Max(0, Min(45 * t_s + 25 * a_s + 20 * d_s + 10 * r_s + 100 * heur, 100 * One))

\* One search result with what the string functions give for it and the
\* trusted title and artists: videoId, the title's ratio, token hits and
\* substring test, per trusted artist the ratio and substring test, the
\* markers of the title, and the duration text.
Result(video_id, sim, hits, title_in, artists, markers, duration) ==
    [videoId |-> video_id, sim |-> sim, hits |-> hits, title_in |-> title_in,
     artists |-> artists, markers |-> markers, duration |-> duration]

Markers(live, cover, remix) == [live |-> live, cover |-> cover, remix |-> remix]

Artist(sim, name_in) == [sim |-> sim, name_in |-> name_in]

\* len(ts) of the trusted title "Shape of You"
TitleTokens == 3

\* The results a search returns entries from: the official upload of the
\* track, "nightcore sped up playlist Shape of You" by Audio Library, whose
\* weighted sum at rank 2 is 0.6497797 against a trusted duration of
\* 233713 ms, a piano cover, an entry without a videoId, a live version by
\* both artists, an unrelated remix cover whose duration does not parse, a
\* short clip whose title holds two of the three trusted tokens, and a long
\* one.
Results ==
    { Result("vA", 615400, 3, TRUE, << Artist(416700, TRUE), Artist(100000, FALSE) >>,
             Markers(FALSE, FALSE, FALSE), << "3", "54" >>),
      Result("vT", 470588, 3, TRUE, << Artist(210526, FALSE), Artist(100000, FALSE) >>,
             Markers(FALSE, FALSE, FALSE), << "4", "10" >>),
      Result("vB", 666700, 3, TRUE, << Artist(264200, FALSE), Artist(100000, FALSE) >>,
             Markers(FALSE, TRUE, FALSE), << "4", "10" >>),
      Result("", 615400, 3, TRUE, << Artist(416700, TRUE), Artist(100000, FALSE) >>,
             Markers(FALSE, FALSE, FALSE), << "3", "54" >>),
      Result("vL", 1000000, 3, TRUE, << Artist(1000000, TRUE), Artist(800000, TRUE) >>,
             Markers(TRUE, FALSE, FALSE), << "3", "54" >>),
      Result("vR", 0, 0, FALSE, << Artist(0, FALSE), Artist(0, FALSE) >>,
             Markers(FALSE, TRUE, TRUE), << "3", "5x" >>),
      Result("vS", 409100, 2, FALSE, << Artist(279100, FALSE), Artist(100000, FALSE) >>,
             Markers(FALSE, FALSE, FALSE), << "0", "06" >>),
      Result("vH", 851400, 3, FALSE, << Artist(760000, FALSE), Artist(100000, FALSE) >>,
             Markers(FALSE, FALSE, FALSE), << "1", "00", "00" >>) }

\* The trusted track: whether duration_ms is there, its value, and the
\* markers of its title.  233713 ms is "Shape of You"; the others put the
\* delta to "3:54" on and just past a bucket boundary, or are under a second.
Trusted(known, ms, live) ==
    [known |-> known, duration_ms |-> ms, markers |-> Markers(live, FALSE, FALSE)]

TrustedTracks ==
    { Trusted(TRUE, 233713, FALSE), Trusted(TRUE, 229000, TRUE), Trusted(TRUE, 228999, FALSE),
      Trusted(TRUE, 174000, FALSE), Trusted(TRUE, 173999, FALSE), Trusted(TRUE, 500, FALSE),
      Trusted(TRUE, 0, FALSE), Trusted(FALSE, 0, FALSE) }

\* lines 296-331: the ScoredCandidate of results[i - 1], its scores rounded to
\* thousandths
ScoredCandidate(i, res, trusted, strength) ==
    LET t_s == title_score(res.sim, res.hits, TitleTokens, res.title_in)
        a_s == artist_score(res.artists)
        d_s == duration_score(trusted.known, trusted.duration_ms, res.duration)
        r_s == rank_prior(i, strength)
        heur == heuristic_adjustment(trusted.markers, res.markers)
    IN  [idx |-> i, video_id |-> res.videoId, duration |-> res.duration,
         final |-> Round3(Combine(t_s, a_s, d_s, r_s, heur), 100000),
         title_s |-> Round3(t_s, 1000),
         artist_s |-> Round3(a_s, 1000),
         duration_s |-> Round3(d_s, 1000),
         rank_s |-> Round3(r_s, 1000),
         heur |-> Round3(heur, 1000),
         matched_artists |-> Matched(res.artists)]

\* lines 294-331, the loop from index i on: an entry without a videoId is
\* passed over
RECURSIVE ScoreFrom(_, _, _, _)
ScoreFrom(i, results, trusted, strength) ==
    IF i > Len(results) THEN << >>
    ELSE (IF results[i].videoId = "" THEN << >>
          ELSE << ScoredCandidate(i, results[i], trusted, strength) >>)
         \o ScoreFrom(i + 1, results, trusted, strength)

\* list.sort(key=lambda c: c.final, reverse=True): stable, an entry goes
\* behind every entry whose final is at least its own
\* Insert that puts an entry before the entries of equal final.
RECURSIVE Insert_before_equals(_, _)
Insert_before_equals(sorted, c) ==
    IF sorted = << >> THEN << c >>
    ELSE IF Head(sorted).final > c.final
         THEN << Head(sorted) >> \o Insert_before_equals(Tail(sorted), c)
         ELSE << c >> \o sorted

RECURSIVE Insert(_, _)
Insert(sorted, c) ==
    IF sorted = << >> THEN << c >>
    ELSE IF Head(sorted).final >= c.final THEN << Head(sorted) >> \o Insert(Tail(sorted), c)
    ELSE << c >> \o sorted

RECURSIVE SortByFinal(_)
SortByFinal(cs) ==
    IF cs = << >> THEN << >>
    ELSE Insert(SortByFinal(SubSeq(cs, 1, Len(cs) - 1)), cs[Len(cs)])

\* no call of score_results has been made
NoCall ==
    [pc |-> "none", results |-> << >>, trusted |-> Trusted(FALSE, 0, FALSE),
     strength |-> 6000, scored |-> << >>, flags |-> << >>, best |-> "none"]

\* The title ratios scenario B is scored with.
Ratios == {0, 333300, 666700, 850000, 1000000}

\* Scenario B: "Shape of You - Piano Cover" by RandomPianoChannel, 4:10, with
\* the title ratio sim; the trusted title is a substring of its title, the
\* trusted artist is not in its text and has the ratio 0.2642 with it.
ScenarioB(sim) ==
    Result("vB", sim, 3, TRUE, << Artist(264200, FALSE), Artist(100000, FALSE) >>,
           Markers(FALSE, TRUE, FALSE), << "4", "10" >>)

\* Scenario A, the official upload, the first of Results.
ScenarioA == CHOOSE r \in Results : r.videoId = "vA"

\* The result sets of the two scenarios: B alone, and A at rank 1 with B at
\* rank 5 and three other results between them.
ScenarioLists ==
    {<< ScenarioB(sim) >> : sim \in Ratios}
    \cup {<< ScenarioA, f, f, f, ScenarioB(sim) >> :
             f \in {r \in Results : r.videoId \in {"", "vR"}}, sim \in Ratios}

\* the lists of at most n results
RECURSIVE ResultLists(_)
ResultLists(n) ==
    IF n = 0 THEN {<< >>}
    ELSE LET shorter == ResultLists(n - 1)
         IN  shorter \cup {Append(l, r) : l \in {x \in shorter : Len(x) = n - 1}, r \in Results}

\* ----------------------------------------------------------------- start
\* the job stores and the disk of a process that has just started
InitJobs ==
    /\ download_status = [t \in Tracks |-> NoJob]
    /\ album_download_status = [a \in Albums |-> NoAlbum]
    /\ tasks = << >>
    /\ files = {}
    /\ retrievals = << >>
    /\ http = Response(None, 0, None, None)
    /\ nreq = 0
    /\ handling = Idle

Init ==
    /\ InitJobs
    /\ scoring = NoCall

\* ------------------------------------------------------- submission handlers
\* POST /api/download
download_track ==
    \E t \in Tracks, requested \in RequestLocations :
        LET loc == ValidLocation(requested) IN
        /\ handling = Idle
        /\ nreq < MaxRequests
        /\ Len(tasks) < MaxTasks
        /\ download_status' = [download_status EXCEPT ![t] = TrackQueuedRecord(loc)]
        /\ tasks' = Append(tasks, NewTask("track", t, loc, None, nreq + 1))
        /\ http' = Response("download", 200, None, None)
        /\ nreq' = nreq + 1
        /\ UNCHANGED << album_download_status, files, retrievals, handling, scoring >>

\* download_album runs on the event loop, where no other request handler runs
\* while it does; the background tasks of earlier requests run in their
\* threads meanwhile, so each of its store accesses is a step of its own.

\* da_lookup with the AlbumRecord stored before the lookup's result is looked
\* at.
da_lookup_record_first ==
    \E a \in Albums, requested \in RequestLocations, found \in BOOLEAN :
        /\ handling = Idle
        /\ nreq < MaxRequests
        /\ nreq' = nreq + 1
        /\ album_download_status' = [album_download_status EXCEPT ![a] = NewAlbumRecord(a)]
        /\ IF ~found
           THEN /\ http' = Response("album", 404, None, None)
                /\ UNCHANGED handling
           ELSE /\ Len(tasks) + Len(AlbumTracks(a)) <= MaxTasks
                /\ handling' = Handling(a, ValidLocation(requested), nreq + 1, 1)
                /\ UNCHANGED http
        /\ UNCHANGED << download_status, tasks, files, retrievals, scoring >>

\* lines 346-365: the lookup, the 404 when it finds nothing, the AlbumRecord
da_lookup ==
    \E a \in Albums, requested \in RequestLocations, found \in BOOLEAN :
        /\ handling = Idle
        /\ nreq < MaxRequests
        /\ nreq' = nreq + 1
        /\ IF ~found
           THEN /\ http' = Response("album", 404, None, None)
                /\ UNCHANGED << album_download_status, handling, scoring >>
           ELSE /\ Len(tasks) + Len(AlbumTracks(a)) <= MaxTasks
                /\ album_download_status' =
                       [album_download_status EXCEPT ![a] = NewAlbumRecord(a)]
                /\ handling' = Handling(a, ValidLocation(requested), nreq + 1, 1)
                /\ UNCHANGED http
        /\ UNCHANGED << download_status, tasks, files, retrievals, scoring >>

\* lines 368-376, one turn of the loop: the member's queued record and its task
da_queue ==
    LET ids == AlbumTracks(handling.album_id) IN
    /\ handling # Idle
    /\ handling.next <= Len(ids)
    /\ download_status' = [download_status EXCEPT
           ![ids[handling.next]] = AlbumQueuedRecord(handling.album_id)]
    /\ tasks' = Append(tasks, NewTask("album", ids[handling.next], handling.location,
                                      handling.album_id, handling.request))
    /\ handling' = [handling EXCEPT !.next = @ + 1]
    /\ UNCHANGED << album_download_status, files, retrievals, http, nreq, scoring >>

\* lines 378-383: the response
da_return ==
    /\ handling # Idle
    /\ handling.next > Len(AlbumTracks(handling.album_id))
    /\ http' = Response("album", 200, None, None)
    /\ handling' = Idle
    /\ UNCHANGED << download_status, album_download_status, tasks, files, retrievals, nreq,
                    scoring >>

\* POST /api/download/album
download_album ==
    \/ da_lookup
    \/ da_queue
    \/ da_return

\* ------------------------------------------------------ download_and_process
\* Where the task continues when download_and_process returns: a single-track
\* task is over, an album member goes on to the album's accounting.
Returned(task) == IF task.kind = "album" THEN "at_read" ELSE "done"

\* The except clause that catches an exception raised at pc: the copy block
\* has its own, the body of the function has the outer one.
Handler(pc) ==
    IF pc \in {"copying", "copied"} THEN "inner"
    ELSE IF pc \in {"dp_start", "fetching", "preparing", "downloading", "tagging"}
         THEN "outer"
         ELSE "none"

\* The task after it made the calls cs and stored rec; fails: the step failed.
Ran(task, pc, rec, cs, fails) ==
    [task EXCEPT !.pc = pc,
                 !.writes = Append(@, << rec.stage, rec.progress >>),
                 !.calls = @ \o cs,
                 !.failed_at = IF fails /\ @ = 0 THEN Len(task.calls \o cs) ELSE @,
                 !.result = IF rec.status \in {"completed", "error"} THEN rec.status ELSE @]

\* Task i makes the calls cs, stores rec under its track id and goes to pc.
Do(i, pc, rec, cs, fails) ==
    /\ download_status' = [download_status EXCEPT ![tasks[i].track_id] = rec]
    /\ tasks' = [tasks EXCEPT ![i] = Ran(@, pc, rec, cs, fails)]

\* Throw without the except clauses of download_and_process: the exception
\* leaves the function and no record is stored.
Throw_uncaught(i, cs) ==
    /\ tasks' = [tasks EXCEPT ![i] =
           [@ EXCEPT !.pc = Returned(tasks[i]), !.calls = @ \o cs,
                     !.failed_at = IF @ = 0 THEN Len(tasks[i].calls \o cs) ELSE @,
                     !.escaped = TRUE]]
    /\ UNCHANGED download_status

\* Task i makes the calls cs, the last of which raises.
Throw(i, cs) ==
    LET task == tasks[i]
        h == Handler(task.pc)
    IN  IF h = "none"
        THEN /\ tasks' = [tasks EXCEPT ![i] =
                    [@ EXCEPT !.pc = Returned(task), !.calls = @ \o cs,
                              !.failed_at = IF @ = 0 THEN Len(task.calls \o cs) ELSE @,
                              !.escaped = TRUE]]
             /\ UNCHANGED download_status
        ELSE Do(i, Returned(task),
                IF h = "inner" THEN CopyFailedRecord ELSE UncaughtRecord, cs, TRUE)

\* line 118
dp_start(i) ==
    /\ tasks[i].pc = "dp_start"
    /\ Do(i, "fetching", FetchingRecord, << >>, FALSE)
    /\ UNCHANGED << album_download_status, files, retrievals, http, nreq, handling, scoring >>

\* dp_fetch without the return of line 128: the run goes on after the error
\* record.
dp_fetch_no_return(i) ==
    /\ tasks[i].pc = "fetching"
    /\ \E track_info \in {"found", "none"} :
         IF track_info = "none"
         THEN Do(i, "preparing", NoTrackInfoRecord, << "get_track_details" >>, TRUE)
         ELSE Do(i, "preparing", PreparingRecord, << "get_track_details" >>, FALSE)
    /\ UNCHANGED << album_download_status, files, retrievals, http, nreq, handling, scoring >>

\* dp_fetch that searches for the media before it reports a lookup that found
\* nothing.
dp_fetch_searches_first(i) ==
    /\ tasks[i].pc = "fetching"
    /\ \E track_info \in {"found", "none"} :
         IF track_info = "none"
         THEN Do(i, Returned(tasks[i]), NoTrackInfoRecord,
                 << "get_track_details", "search_and_download" >>, TRUE)
         ELSE Do(i, "preparing", PreparingRecord, << "get_track_details" >>, FALSE)
    /\ UNCHANGED << album_download_status, files, retrievals, http, nreq, handling, scoring >>

\* lines 121-130: get_track_details returns the track or None (it catches
\* its own exceptions)
dp_fetch(i) ==
    /\ tasks[i].pc = "fetching"
    /\ \E track_info \in {"found", "none"} :
         IF track_info = "none"
         THEN Do(i, Returned(tasks[i]), NoTrackInfoRecord, << "get_track_details" >>, TRUE)
         ELSE Do(i, "preparing", PreparingRecord, << "get_track_details" >>, FALSE)
    /\ UNCHANGED << album_download_status, files, retrievals, http, nreq, handling, scoring >>

\* lines 133-148: the staging directory and the download path
dp_prepare(i) ==
    /\ tasks[i].pc = "preparing"
    /\ \E outcome \in {"ok", "raise"} :
         IF outcome = "raise"
         THEN Throw(i, << "get_download_path" >>)
         ELSE Do(i, "downloading", DownloadingRecord, << "get_download_path" >>, FALSE)
    /\ UNCHANGED << album_download_status, files, retrievals, http, nreq, handling, scoring >>

\* lines 152-168: search_and_download stages the file, reports a failure or
\* raises
dp_download(i) ==
    /\ tasks[i].pc = "downloading"
    /\ \E outcome \in {"success", "failure", "raise"} :
         CASE outcome = "success" ->
                /\ Do(i, "tagging", TaggingRecord, << "search_and_download" >>, FALSE)
                /\ files' = files \cup {StagedPath(tasks[i].track_id)}
           [] outcome = "failure" ->
                /\ Do(i, Returned(tasks[i]), DownloadFailedRecord,
                      << "search_and_download" >>, TRUE)
                /\ UNCHANGED files
           [] outcome = "raise" ->
                /\ Throw(i, << "search_and_download" >>)
                /\ UNCHANGED files
    /\ UNCHANGED << album_download_status, retrievals, http, nreq, handling, scoring >>

\* dp_tag without the copying record of line 176.
dp_tag_no_copying_record(i) ==
    /\ tasks[i].pc = "tagging"
    /\ \E outcome \in {"ok", "raise"} :
         CASE outcome = "raise" -> Throw(i, << "apply_metadata" >>)
           [] outcome = "ok" /\ tasks[i].location = "navidrome" ->
                /\ tasks' = [tasks EXCEPT ![i] =
                       [@ EXCEPT !.pc = "copying", !.calls = @ \o << "apply_metadata" >>]]
                /\ UNCHANGED download_status
           [] outcome = "ok" /\ tasks[i].location # "navidrome" ->
                Do(i, Returned(tasks[i]), LocalCompletedRecord(tasks[i].track_id),
                   << "apply_metadata" >>, FALSE)
    /\ UNCHANGED << album_download_status, files, retrievals, http, nreq, handling, scoring >>

\* lines 171-176 and 214-228: apply_metadata, then the copying record (library
\* target) or the completed record (local target)
dp_tag(i) ==
    /\ tasks[i].pc = "tagging"
    /\ \E outcome \in {"ok", "raise"} :
         CASE outcome = "raise" -> Throw(i, << "apply_metadata" >>)
           [] outcome = "ok" /\ tasks[i].location = "navidrome" ->
                Do(i, "copying", CopyingRecord, << "apply_metadata" >>, FALSE)
           [] outcome = "ok" /\ tasks[i].location # "navidrome" ->
                Do(i, Returned(tasks[i]), LocalCompletedRecord(tasks[i].track_id),
                   << "apply_metadata" >>, FALSE)
    /\ UNCHANGED << album_download_status, files, retrievals, http, nreq, handling, scoring >>

\* lines 180-183: get_target_path, then shutil.copy2, which needs its source
dp_copy(i) ==
    /\ tasks[i].pc = "copying"
    /\ \E outcome \in {"ok", "path_raise", "copy_raise"} :
         LET t == tasks[i].track_id IN
         CASE outcome = "path_raise" ->
                /\ Throw(i, << "get_target_path" >>)
                /\ UNCHANGED files
           [] outcome = "copy_raise" ->
                /\ Throw(i, << "get_target_path", "copy2" >>)
                /\ UNCHANGED files
           [] outcome = "ok" ->
                /\ StagedPath(t) \in files
                /\ tasks' = [tasks EXCEPT ![i] =
                       [@ EXCEPT !.pc = "copied",
                                 !.calls = @ \o << "get_target_path", "copy2" >>]]
                /\ files' = files \cup {LibraryPath(t)}
                /\ UNCHANGED download_status
    /\ UNCHANGED << album_download_status, retrievals, http, nreq, handling, scoring >>

\* lines 186-213: the staged file is removed if it is there, finalize_track
\* reports success or failure, or one of the two raises
dp_finalize(i) ==
    /\ tasks[i].pc = "copied"
    /\ \E outcome \in {"success", "failure", "hook_raise", "remove_raise"} :
         LET t == tasks[i].track_id
             staged == StagedPath(t) \in files
             removal == IF staged THEN << "remove" >> ELSE << >>
         IN
         CASE outcome = "remove_raise" ->
                /\ staged
                /\ Throw(i, << "remove" >>)
                /\ UNCHANGED files
           [] outcome = "hook_raise" ->
                /\ Throw(i, removal \o << "finalize_track" >>)
                /\ files' = files \ {StagedPath(t)}
           [] outcome = "success" ->
                /\ Do(i, Returned(tasks[i]), LibraryCompletedRecord(t),
                      removal \o << "finalize_track" >>, FALSE)
                /\ files' = files \ {StagedPath(t)}
           [] outcome = "failure" ->
                /\ Do(i, Returned(tasks[i]), LibraryCaveatRecord(t),
                      removal \o << "finalize_track" >>, FALSE)
                /\ files' = files \ {StagedPath(t)}
    /\ UNCHANGED << album_download_status, retrievals, http, nreq, handling, scoring >>

\* ------------------------------------------------------ download_album_track
\* The response of the request that added task i has been sent, and the tasks
\* the request added before task i have returned.
Runnable(i) ==
    /\ tasks[i].request # handling.request
    /\ \A j \in TaskIds :
          (j < i /\ tasks[j].request = tasks[i].request) => tasks[j].pc = "done"

\* lines 389-390
at_start(i) ==
    LET task == tasks[i] IN
    /\ task.pc = "at_start"
    /\ Runnable(i)
    /\ album_download_status' =
           IF album_download_status[task.album_id] # NoAlbum
           THEN [album_download_status EXCEPT ![task.album_id].current_track = task.track_id]
           ELSE album_download_status
    /\ tasks' = [tasks EXCEPT ![i].pc = "dp_start"]
    /\ UNCHANGED << download_status, files, retrievals, http, nreq, handling, scoring >>

\* lines 396-401, the reads: the record's status picks the counter, whose
\* value is loaded (an exception that left download_and_process is counted by
\* the except clause, lines 411-413)
at_read(i) ==
    LET task == tasks[i]
        counter == IF ~task.escaped /\ download_status[task.track_id].status = "completed"
                   THEN "completed_tracks" ELSE "failed_tracks"
    IN
    /\ task.pc = "at_read"
    /\ tasks' = [tasks EXCEPT ![i] =
           [@ EXCEPT !.pc = "at_write",
                     !.counter = counter,
                     !.count = album_download_status[task.album_id][counter]]]
    /\ UNCHANGED << download_status, album_download_status, files, retrievals, http, nreq, handling, scoring >>

\* lines 399/401/413, the store of the incremented counter
at_write(i) ==
    LET task == tasks[i] IN
    /\ task.pc = "at_write"
    /\ album_download_status' =
           [album_download_status EXCEPT ![task.album_id][task.counter] = task.count + 1]
    /\ tasks' = [tasks EXCEPT ![i].pc = IF task.escaped THEN "done" ELSE "at_check"]
    /\ UNCHANGED << download_status, files, retrievals, http, nreq, handling, scoring >>

\* lines 404-408
at_check(i) ==
    LET task == tasks[i]
        album == album_download_status[task.album_id]
    IN
    /\ task.pc = "at_check"
    /\ tasks' = [tasks EXCEPT ![i].pc =
           IF album.completed_tracks + album.failed_tracks >= album.total_tracks
           THEN "at_complete" ELSE "done"]
    /\ UNCHANGED << download_status, album_download_status, files, retrievals, http, nreq, handling, scoring >>

\* line 409
at_complete(i) ==
    /\ tasks[i].pc = "at_complete"
    /\ album_download_status' =
           [album_download_status EXCEPT ![tasks[i].album_id].status = "completed"]
    /\ tasks' = [tasks EXCEPT ![i].pc = "at_clear"]
    /\ UNCHANGED << download_status, files, retrievals, http, nreq, handling, scoring >>

\* line 410
at_clear(i) ==
    /\ tasks[i].pc = "at_clear"
    /\ album_download_status' =
           [album_download_status EXCEPT ![tasks[i].album_id].current_track = None]
    /\ tasks' = [tasks EXCEPT ![i].pc = "done"]
    /\ UNCHANGED << download_status, files, retrievals, http, nreq, handling, scoring >>

\* -------------------------------------------------------------- orchestration
TrackStep ==
    \E i \in TaskIds :
        \/ dp_start(i)
        \/ dp_fetch(i)
        \/ dp_prepare(i)
        \/ dp_download(i)
        \/ dp_tag(i)
        \/ dp_copy(i)
        \/ dp_finalize(i)

AlbumStep ==
    \E i \in TaskIds :
        \/ at_start(i)
        \/ at_read(i)
        \/ at_write(i)
        \/ at_check(i)
        \/ at_complete(i)
        \/ at_clear(i)

Next ==
    \/ download_track
    \/ download_album
    \/ TrackStep
    \/ AlbumStep

Spec == Init /\ [][Next]_vars

\* The steps of the i-th scheduled task.
TaskStep(i) ==
    /\ i \in TaskIds
    /\ \/ dp_start(i) \/ dp_fetch(i) \/ dp_prepare(i) \/ dp_download(i)
       \/ dp_tag(i) \/ dp_copy(i) \/ dp_finalize(i)
       \/ at_start(i) \/ at_read(i) \/ at_write(i) \/ at_check(i)
       \/ at_complete(i) \/ at_clear(i)

\* Every collaborator call returns or raises, a handler that has started
\* goes on to its response, and the executor runs every task it was given: a
\* task that can take a step eventually takes one.
SpecLive ==
    /\ Init /\ [][Next]_vars
    /\ WF_vars(da_queue \/ da_return)
    /\ \A i \in 1 .. MaxTasks : WF_vars(TaskStep(i))

\* Single-track jobs alone.
NextTrack ==
    \/ download_track
    \/ TrackStep

SpecTrack == Init /\ [][NextTrack]_vars

\* ------------------------------------------------------------------ retrieval
\* The file names a retrieval request supplies (after the transport decoded
\* the query string once): each produced name, its quoted form, and the name
\* t2's name decodes to.
RequestNames ==
    {TrackFileName(t) : t \in Tracks} \cup {quote(TrackFileName(t)) : t \in Tracks}
        \cup {unquote(TrackFileName(t)) : t \in Tracks}

\* os.path.dirname
Dirname(path) ==
    IF \E t \in Tracks : path = StagedPath(t) THEN TempDir
    ELSE LibraryDir(CHOOSE t \in Tracks : path = LibraryPath(t))

\* "temp" in <directory>, for the directories of the model
ContainsTemp(dir) == dir \in {TempDir, "music/artist/contemporary"}

\* line 482; temp_dir_path in file_path holds of the staged paths
is_temp_file(path) ==
    (\E t \in Tracks : path = StagedPath(t)) \/ ContainsTemp(Dirname(path))

\* lines 460-477: the status code download_file answers with, 200 when it
\* streams the file
FileRequestCode(job, disk, filename) ==
    IF job = NoJob THEN 404
    ELSE IF job.status # "completed" THEN 400
    ELSE IF job.file_path = None \/ job.file_path \notin disk THEN 404
    ELSE IF Basename(job.file_path) # unquote(filename) THEN 400
    ELSE 200

\* GET /api/download/file/{track_id}?filename=...
download_file ==
    \E t \in Tracks, filename \in RequestNames :
        LET job == download_status[t]
            code == FileRequestCode(job, files, filename)
        IN
        /\ handling = Idle
        /\ http' = Response("file", code, t, Text(filename))
        /\ IF code = 200
           THEN /\ Len(retrievals) < MaxRetrievals
                /\ retrievals' = Append(retrievals,
                       [track_id |-> t, file_path |-> job.file_path,
                        cleanup |-> is_temp_file(job.file_path), pc |-> "streaming"])
           ELSE UNCHANGED retrievals
        /\ UNCHANGED << download_status, album_download_status, tasks, files, nreq, handling, scoring >>

\* The response has been sent: the request's background task, if it added
\* one, may start.
transfer_complete ==
    \E r \in 1 .. Len(retrievals) :
        /\ retrievals[r].pc = "streaming"
        /\ retrievals' = [retrievals EXCEPT ![r].pc =
               IF retrievals[r].cleanup THEN "sleeping" ELSE "done"]
        /\ UNCHANGED << download_status, album_download_status, tasks, files, http, nreq, handling, scoring >>

\* lines 499-508, after the sleep
cleanup_temp_file ==
    \E r \in 1 .. Len(retrievals) :
        /\ retrievals[r].pc = "sleeping"
        /\ files' = files \ {retrievals[r].file_path}
        /\ retrievals' = [retrievals EXCEPT ![r].pc = "done"]
        /\ UNCHANGED << download_status, album_download_status, tasks, http, nreq, handling, scoring >>

\* Single-track jobs and the retrieval of their files.
NextFile ==
    \/ (Len(tasks) < MaxFileTasks /\ download_track)
    \/ TrackStep
    \/ download_file
    \/ transfer_complete
    \/ cleanup_temp_file

SpecFile == Init /\ [][NextFile]_vars

\* ------------------------------------------------------------ score_results
\* A call of score_results is about to be made with a list of results, a
\* trusted track and a rank strength.
InitScore ==
    /\ InitJobs
    /\ \E results \in ResultLists(MaxResults) \cup ScenarioLists,
          trusted \in TrustedTracks, strength \in Strengths :
         scoring = [pc |-> "called", results |-> results, trusted |-> trusted,
                    strength |-> strength, scored |-> << >>, flags |-> << >>,
                    best |-> "none"]

\* lines 285-334
score_results ==
    /\ scoring.pc = "called"
    /\ scoring' = [scoring EXCEPT
           !.pc = "returned",
           !.scored = SortByFinal(ScoreFrom(1, scoring.results, scoring.trusted,
                                            scoring.strength))]
    /\ UNCHANGED << download_status, album_download_status, tasks, files, retrievals,
                    http, nreq, handling >>

\* lines 395-396: the candidate is not starred
ClearsThreshold(c) == c.final >= CONFIDENCE_THRESHOLD

\* main, lines 389-405, after score_results: it stops when nothing was
\* scored; else every candidate is flagged against the threshold and the
\* first of the list is reported as the best, with the same test
main_report ==
    /\ scoring.pc = "returned"
    /\ scoring' = [scoring EXCEPT
           !.pc = "reported",
           !.flags = [k \in 1 .. Len(scoring.scored) |-> ClearsThreshold(scoring.scored[k])],
           !.best = IF scoring.scored = << >> THEN "none"
                    ELSE IF ClearsThreshold(scoring.scored[1]) THEN "clears" ELSE "below"]
    /\ UNCHANGED << download_status, album_download_status, tasks, files, retrievals,
                    http, nreq, handling >>

NextScore ==
    \/ score_results
    \/ main_report

SpecScore == InitScore /\ [][NextScore]_vars

\* ===================================================================== claims
TerminalStatus == {"completed", "error"}

\* the pcs at which a task is inside download_and_process
InOrchestrator == {"dp_start", "fetching", "preparing", "downloading", "tagging",
                   "copying", "copied"}

AlbumTaskIds(a) == {i \in TaskIds : tasks[i].album_id = a}

Ended(a, status) == Cardinality({i \in AlbumTaskIds(a) : tasks[i].result = status})

Accounted(a) ==
    album_download_status[a].completed_tracks + album_download_status[a].failed_tracks

\* C1: from one state to the next the progress of a stored JobRecord never
\* decreases, unless the step sets its status to error, and then the progress
\* becomes 0.
C1_ProgressNeverDecreases ==
    [][\A t \in Tracks :
          download_status'[t] # download_status[t] =>
              IF download_status'[t].status = "error"
              THEN download_status'[t].progress = 0
              ELSE download_status'[t].progress >= download_status[t].progress]_vars

\* C2: in every state, for every album id present, the status is completed if
\* and only if completed_tracks + failed_tracks >= total_tracks.
C2_CompletedIffAllAccounted ==
    \A a \in Albums :
        album_download_status[a] # NoAlbum =>
            (album_download_status[a].status = "completed"
                <=> Accounted(a) >= album_download_status[a].total_tracks)

\* C3: an album of N >= 1 distinct tracks was submitted once and all its N
\* member tasks are over: completed_tracks is the number of member runs that
\* ended completed, failed_tracks the number that ended error, their sum is N
\* and the status is completed.
C3_NoIncrementLost ==
    \A a \in Albums :
        LET n == Len(AlbumTracks(a)) IN
        ( /\ n >= 1
          /\ handling.album_id # a
          /\ Cardinality(AlbumTaskIds(a)) = n
          /\ \A i \in AlbumTaskIds(a) : tasks[i].pc = "done" )
        => /\ album_download_status[a].completed_tracks = Ended(a, "completed")
           /\ album_download_status[a].failed_tracks = Ended(a, "error")
           /\ Accounted(a) = n
           /\ album_download_status[a].status = "completed"

\* C4: in every state, for every album id, completed_tracks + failed_tracks
\* is at most total_tracks.
C4_AccountedAtMostTotal ==
    \A a \in Albums : Accounted(a) <= album_download_status[a].total_tracks

\* C5: whenever an AlbumRecord has status completed, its current_track is
\* None.
C5_CompletedHasNoCurrentTrack ==
    \A a \in Albums :
        album_download_status[a].status = "completed" =>
            album_download_status[a].current_track = None

\* C6: once a JobRecord has status completed or error, no step changes it.
C6_TerminalRecordsStay ==
    [][\A t \in Tracks :
          download_status[t].status \in TerminalStatus =>
              download_status'[t] = download_status[t]]_vars

\* The (stage, progress) pairs of a run that meets no failure.
StagesOf(location) ==
    << << "queued", 0 >>, << "fetching", 10 >>, << "preparing", 15 >>,
       << "downloading", 30 >>, << "tagging", 85 >> >>
    \o (IF location = "navidrome" THEN << << "copying", 90 >> >> ELSE << >>)
    \o << << "completed", 100 >> >>

IsPrefix(s, t) == Len(s) <= Len(t) /\ SubSeq(t, 1, Len(s)) = s

\* C7: a run that meets no failure stores exactly queued 0, fetching 10,
\* preparing 15, downloading 30, tagging 85, copying 90 if and only if the
\* target is the library, completed 100: what it has stored so far is always
\* the beginning of that sequence, and all of it once the run has returned.
C7_StagesInOrder ==
    \A i \in TaskIds :
        tasks[i].failed_at = 0 =>
            /\ IsPrefix(tasks[i].writes, StagesOf(tasks[i].location))
            /\ tasks[i].pc \notin InOrchestrator \cup {"at_start"} =>
                   tasks[i].writes = StagesOf(tasks[i].location)

\* C7 witness: a library run and a local run have both returned without a
\* failure.
C7_Witness ==
    \E i, j \in TaskIds :
        /\ tasks[i].location = "navidrome" /\ tasks[j].location = "local"
        /\ tasks[i].pc = "done" /\ tasks[j].pc = "done"
        /\ tasks[i].failed_at = 0 /\ tasks[j].failed_at = 0
        /\ Len(tasks[i].writes) = 7 /\ Len(tasks[j].writes) = 6

\* C8: when a step of a run fails, the run is over at once: its last record
\* has status error and progress 0, no exception left download_and_process,
\* and the failing call is the last collaborator call of the run.
C8_FailureEndsRun ==
    \A i \in TaskIds :
        tasks[i].failed_at > 0 =>
            /\ ~tasks[i].escaped
            /\ tasks[i].pc \notin InOrchestrator
            /\ tasks[i].result = "error"
            /\ tasks[i].writes[Len(tasks[i].writes)][2] = 0
            /\ Len(tasks[i].calls) = tasks[i].failed_at

\* C8 witness: a run failed in the copy block and another before it.
C8_Witness ==
    \E i, j \in TaskIds :
        /\ tasks[i].failed_at > 0 /\ tasks[i].pc = "done"
        /\ tasks[i].calls[tasks[i].failed_at] = "finalize_track"
        /\ tasks[j].failed_at > 0 /\ tasks[j].pc = "done"
        /\ tasks[j].calls[tasks[j].failed_at] = "search_and_download"

Streaming(path) ==
    \E q \in 1 .. Len(retrievals) :
        retrievals[q].pc = "streaming" /\ retrievals[q].file_path = path

\* C9: cleanup_temp_file removes a file only when no retrieval of that file
\* is still being transferred.
C9_NoDeleteWhileStreaming ==
    [][\A r \in 1 .. Len(retrievals) :
          ( /\ retrievals[r].pc = "sleeping"
            /\ retrievals'[r].pc = "done"
            /\ retrievals[r].file_path \in files
            /\ retrievals[r].file_path \notin files' )
          => ~Streaming(retrievals[r].file_path)]_vars

\* The classification C10 states.
ClaimedCode(job, disk, filename) ==
    IF job = NoJob THEN 404
    ELSE IF job.status # "completed" THEN 400
    ELSE IF job.file_path = None \/ job.file_path \notin disk THEN 404
    ELSE IF filename # Basename(job.file_path) THEN 400
    ELSE 200

\* C10: download_file answers 404 if the track id has no JobRecord or the
\* produced file is missing, 400 if the status is not completed, 400 if the
\* supplied file name differs from the produced file's name, and streams the
\* file otherwise.
C10_RetrievalClassification ==
    \A t \in Tracks, filename \in RequestNames :
        FileRequestCode(download_status[t], files, filename)
            = ClaimedCode(download_status[t], files, filename)

\* C11: a retrieval request for a completed job whose file exists, with a
\* file name that is not the produced file's name, answers 400 and changes
\* nothing: no file is removed, no transfer starts, no cleanup is scheduled
\* and the JobRecord stays as it was.
C11_MismatchChangesNothing ==
    [][\A t \in Tracks :
          ( /\ http'.endpoint = "file" /\ http'.track_id = t
            /\ (http' # http \/ retrievals' # retrievals)
            /\ download_status[t].status = "completed"
            /\ download_status[t].file_path \in files
            /\ http'.filename # Text(Basename(download_status[t].file_path)) )
          => /\ http'.code = 400
             /\ files' = files
             /\ retrievals' = retrievals
             /\ download_status' = download_status]_vars

\* the run of task i called finalize_track, so its copy to the library is done
HookCalled(i) ==
    /\ tasks[i].location = "navidrome"
    /\ tasks[i].calls # << >>
    /\ tasks[i].calls[Len(tasks[i].calls)] = "finalize_track"

\* C12: a library run that has copied the staged file and called the
\* post-ingest hook ends completed with progress 100, whether finalize_track
\* reported success, reported failure or raised.
C12_HookOutcomeIrrelevant ==
    \A i \in TaskIds :
        (HookCalled(i) /\ tasks[i].pc \notin InOrchestrator) =>
            /\ tasks[i].result = "completed"
            /\ tasks[i].writes[Len(tasks[i].writes)] = << "completed", 100 >>

\* C13: every scheduled run, of a single-track submission or of an album
\* member, eventually stores a record with status completed or error; and
\* when an album member's run has ended in error, every later member of the
\* same submission still runs to its own completed or error record.
C13_EveryRunEnds ==
    \A i \in 1 .. MaxTasks :
        /\ (i \in TaskIds) ~> (i \in TaskIds /\ tasks[i].result \in TerminalStatus)
        /\ \A j \in 1 .. MaxTasks :
              ( /\ i \in TaskIds /\ j \in TaskIds /\ i < j
                /\ tasks[i].kind = "album" /\ tasks[j].request = tasks[i].request
                /\ tasks[i].result = "error" )
              ~> (j \in TaskIds /\ tasks[j].result \in TerminalStatus /\ tasks[j].pc = "done")

\* C13 witness: the first member of an album failed and the second, which ran
\* after it, ended completed.
C13_Witness ==
    \E i, j \in TaskIds :
        /\ i < j /\ tasks[i].kind = "album" /\ tasks[j].request = tasks[i].request
        /\ tasks[i].result = "error" /\ tasks[i].pc = "done"
        /\ tasks[j].result = "completed" /\ tasks[j].pc = "done"

\* C14: an album submission that ends at its lookup, which found no album (the
\* step that receives the request also answers it), is answered 404 and
\* leaves both stores and the scheduled tasks as they were: no AlbumRecord is
\* created or overwritten, no JobRecord is created, no task is added.
C14_UnknownAlbumChangesNothing ==
    [][( /\ nreq' = nreq + 1
         /\ http'.endpoint = "album"
         /\ handling' = Idle )
       => /\ http'.code = 404
          /\ album_download_status' = album_download_status
          /\ download_status' = download_status
          /\ tasks' = tasks]_vars

\* C14 witness: an unknown album was asked for while an album of an earlier
\* submission was in progress.
C14_Witness ==
    /\ http.endpoint = "album" /\ http.code = 404
    /\ \E a \in Albums : album_download_status[a].status = "downloading"
    /\ \E i \in TaskIds : tasks[i].kind = "album" /\ tasks[i].pc \in InOrchestrator

\* the tasks request number r added, in the order it added them
RECURSIVE TracksOfRequest(_, _)
TracksOfRequest(ts, r) ==
    IF ts = << >> THEN << >>
    ELSE (IF Head(ts).request = r /\ Head(ts).kind = "album" /\ Head(ts).pc = "at_start"
          THEN << Head(ts).track_id >> ELSE << >>) \o TracksOfRequest(Tail(ts), r)

\* C15: when a successful album submission with track list L returns, the
\* AlbumRecord has total_tracks |L|, both counters 0, status downloading, no
\* current track and track_ids L; every track of L has a JobRecord with
\* status queued, stage queued, progress 0 and the album's id; and the
\* request has scheduled exactly one task per element of L, none started.
C15_AlbumSubmissionResult ==
    [][(handling # Idle /\ handling' = Idle) =>
          LET a == handling.album_id
              L == AlbumTracks(a)
              album == album_download_status'[a]
          IN
          /\ http'.code = 200
          /\ album.total_tracks = Len(L)
          /\ album.completed_tracks = 0 /\ album.failed_tracks = 0
          /\ album.status = "downloading"
          /\ album.current_track = None
          /\ album.track_ids = L
          /\ \A k \in 1 .. Len(L) :
                /\ download_status'[L[k]].status = "queued"
                /\ download_status'[L[k]].stage = "queued"
                /\ download_status'[L[k]].progress = 0
                /\ download_status'[L[k]].album_id = a
          /\ TracksOfRequest(tasks', handling.request) = L]_vars

\* ------------------------------------------------------- claims on scoring
CallReturned == scoring.pc = "returned"

ScoredIds == 1 .. Len(scoring.scored)

\* C16: every final score score_results returns is at least 0 and at most 1
\* (0 to 1000 thousandths), whatever the component scores are.
C16_FinalWithinUnitInterval ==
    CallReturned => \A k \in ScoredIds :
        scoring.scored[k].final >= 0 /\ scoring.scored[k].final <= 1000

\* C16 witness: one returned list holds a candidate whose weighted sum is
\* above 1 (every score 1, the artist score raised by the bonus, the live
\* adjustment on top) and one whose sum is below 0 (both penalties).
C16_Witness ==
    /\ CallReturned
    /\ \E k \in ScoredIds :
          /\ scoring.scored[k].final = 1000 /\ scoring.scored[k].heur = 50
          /\ scoring.scored[k].title_s = 1000 /\ scoring.scored[k].artist_s = 1000
          /\ scoring.scored[k].duration_s = 1000 /\ scoring.scored[k].matched_artists = 2
    /\ \E k \in ScoredIds :
          scoring.scored[k].final = 0 /\ scoring.scored[k].heur = -220

\* clamp(0.45 title + 0.25 artist + 0.20 duration + 0.10 rank + heuristic, 0, 1)
\* of the stored scores of c, in units of 1e-5
FormulaOfStored(c) ==
    Max(0, Min(45 * c.title_s + 25 * c.artist_s + 20 * c.duration_s + 10 * c.rank_s
               + 100 * c.heur, 100000))

\* C17 as stated: the stored final of every returned candidate equals the
\* formula applied to the candidate's own stored component scores.
C17_FinalEqualsFormulaOfStored ==
    CallReturned => \A k \in ScoredIds :
        100 * scoring.scored[k].final = FormulaOfStored(scoring.scored[k])

\* C17 amended: the stored final of every returned candidate is within 0.001
\* of the formula applied to the candidate's own stored component scores.
C17_FinalNearFormulaOfStored ==
    CallReturned => \A k \in ScoredIds :
        Abs(100 * scoring.scored[k].final - FormulaOfStored(scoring.scored[k])) <= 100

\* C17 witness: a returned candidate whose stored final is not the formula of
\* its stored scores, none of the two being clamped.
C17_Witness ==
    /\ CallReturned
    /\ \E k \in ScoredIds :
          /\ 100 * scoring.scored[k].final # FormulaOfStored(scoring.scored[k])
          /\ scoring.scored[k].final \in 1 .. 999

\* C18: the returned list is ordered by final score, highest first, and two
\* candidates of equal final score are in the order of their ranks.
C18_SortedAndStable ==
    CallReturned => \A j, k \in ScoredIds :
        j < k =>
            /\ scoring.scored[j].final >= scoring.scored[k].final
            /\ scoring.scored[j].final = scoring.scored[k].final
                   => scoring.scored[j].idx < scoring.scored[k].idx

\* C18 witness: a returned list in which a later result was moved before an
\* earlier one and two results of equal final score kept their order.
C18_Witness ==
    /\ CallReturned
    /\ \E j, k \in ScoredIds :
          j < k /\ scoring.scored[j].idx > scoring.scored[k].idx
    /\ \E j, k \in ScoredIds :
          /\ j < k /\ scoring.scored[j].final = scoring.scored[k].final
          /\ scoring.scored[j].idx < scoring.scored[k].idx

\* C19: the returned list has exactly one entry per result of the input
\* list, so it is as long as the input list.
C19_OneEntryPerResult ==
    CallReturned =>
        /\ Len(scoring.scored) = Len(scoring.results)
        /\ \A i \in 1 .. Len(scoring.results) :
              Cardinality({k \in ScoredIds : scoring.scored[k].idx = i}) = 1

\* the bucket C20 states for a delta in milliseconds, in thousandths
ClaimedBucket(delta) ==
    IF delta <= 5000 THEN 1000
    ELSE IF delta <= 15000 THEN 850
    ELSE IF delta <= 30000 THEN 650
    ELSE IF delta <= 60000 THEN 350
    ELSE 0

\* C20: for a known trusted duration, under one second or not, and a
\* candidate duration that parses, the duration score is the bucket of
\* delta = |trusted - candidate|, the boundaries 5, 15, 30 and 60 s belonging
\* to the lower bucket.
C20_DurationBuckets ==
    CallReturned => \A k \in ScoredIds :
        LET c == scoring.scored[k]
            ms == scoring.trusted.duration_ms
        IN  (scoring.trusted.known /\ ms >= 1 /\ Parses(c.duration)) =>
                c.duration_s = ClaimedBucket(Abs(ms - 1000 * parse_duration_to_seconds(c.duration)))

\* ------------------------------------------------- claims on main's report
Reported == scoring.pc = "reported"

\* clamp(0.45 title + 0.25 artist + 0.20 duration + 0.10 rank + heuristic, 0, 1)
\* of candidate c, computed from the result it was scored from, in units of 1e-8
FinalScoreOf(c) ==
    LET res == scoring.results[c.idx]
    IN  Combine(title_score(res.sim, res.hits, TitleTokens, res.title_in),
                artist_score(res.artists),
                duration_score(scoring.trusted.known, scoring.trusted.duration_ms,
                               res.duration),
                rank_prior(c.idx, scoring.strength),
                heuristic_adjustment(scoring.trusted.markers, res.markers))

\* C21: a candidate is reported as clearing the threshold exactly when its
\* final score, the clamped weighted sum, is at least 0.65, and the first of
\* the list is selected exactly when its final score is at least 0.65.
C21_ClearsIffFinalAtLeastThreshold ==
    Reported =>
        /\ \A k \in ScoredIds :
              scoring.flags[k] <=> FinalScoreOf(scoring.scored[k]) >= 65000000
        /\ scoring.scored # << >> =>
              (scoring.best = "clears" <=> FinalScoreOf(scoring.scored[1]) >= 65000000)

\* the call is one of the two scenarios: trusted "Shape of You" by Ed Sheeran,
\* 233713 ms, and a result set of ScenarioLists
ScenarioCall ==
    /\ scoring.pc # "called"
    /\ scoring.results \in ScenarioLists
    /\ scoring.trusted = Trusted(TRUE, 233713, FALSE)

\* C22: in the scenario calls the piano cover has a final score below 0.65
\* whatever its title similarity ratio is, stands behind the official upload
\* in the returned list when both were scored, and is not selected when it is
\* the only result.
C22_PianoCoverBelowThreshold ==
    ScenarioCall => \A k \in ScoredIds :
        scoring.scored[k].video_id = "vB" =>
            /\ FinalScoreOf(scoring.scored[k]) < 65000000
            /\ \A j \in ScoredIds : scoring.scored[j].video_id = "vA" => j < k
            /\ (Reported /\ Len(scoring.results) = 1) => scoring.best = "below"

\* C22 witness: a reported scenario call with both candidates, the cover at
\* rank 5 with the title ratio 1.0, the official upload first and selected.
C22_Witness ==
    /\ ScenarioCall /\ Reported
    /\ Len(scoring.results) = 5
    /\ scoring.results[5] = ScenarioB(1000000)
    /\ scoring.scored[1].video_id = "vA" /\ scoring.best = "clears"
    /\ \E k \in ScoredIds : scoring.scored[k].video_id = "vB" /\ ~scoring.flags[k]

\* ------------------------------------------------- claims on rank_prior
\* C23 as stated: rank_prior is exactly 1.0 at rank 1, and at every rank of a
\* scored candidate the prior of the next rank is strictly smaller, for the
\* strength of the call.
C23_RankPriorStrictlyDecreases ==
    CallReturned =>
        /\ rank_prior(1, scoring.strength) = One
        /\ \A k \in ScoredIds :
              rank_prior(scoring.scored[k].idx + 1, scoring.strength)
                  < rank_prior(scoring.scored[k].idx, scoring.strength)

\* C23 amended: rank_prior is exactly 1.0 at rank 1 and the prior of the next
\* rank is never larger; it is strictly smaller for the strengths 6.0 and 1.0.
C23_RankPriorNeverIncreases ==
    CallReturned =>
        /\ rank_prior(1, scoring.strength) = One
        /\ \A k \in ScoredIds :
              LET this == rank_prior(scoring.scored[k].idx, scoring.strength)
                  next == rank_prior(scoring.scored[k].idx + 1, scoring.strength)
              IN  /\ next <= this
                  /\ scoring.strength \in {6000, 1000} => next < this

\* C23 witness: a call with the strength 0.001 returned a candidate of rank 2
\* or more, whose prior and that of the next rank are both 0.0, beside the
\* candidate of rank 1 with the prior 1.0.
C23_Witness ==
    /\ CallReturned
    /\ scoring.strength = 1
    /\ \E k \in ScoredIds : scoring.scored[k].idx = 1 /\ scoring.scored[k].rank_s = 1000
    /\ \E k \in ScoredIds :
          /\ scoring.scored[k].idx >= 2
          /\ scoring.scored[k].rank_s = 0
          /\ rank_prior(scoring.scored[k].idx + 1, scoring.strength) = 0

\* ------------------------------------------- claims on the job and album runs
\* C24: the step with which download_album_track has accounted for a member
\* track and returns leaves the album's current_track None, for every member
\* track of the album.
C24_AccountingClearsCurrentTrack ==
    [][\A i \in TaskIds :
          (tasks[i].kind = "album" /\ tasks[i].pc # "done" /\ tasks'[i].pc = "done")
              => album_download_status'[tasks[i].album_id].current_track = None]_vars

\* the run of task i stored the error record right after the fetching record:
\* get_track_details returned None
LookupFoundNothing(i) ==
    /\ Len(tasks[i].writes) >= 3
    /\ tasks[i].writes[2] = << "fetching", 10 >>
    /\ tasks[i].writes[3] = << None, 0 >>

\* C25: a run whose metadata lookup finds nothing ends in error with the
\* lookup as its only collaborator call (no search, tagging, target path,
\* copy or hook), and its records are queued, fetching and the error record.
C25_NotFoundEndsRun ==
    \A i \in TaskIds :
        LookupFoundNothing(i) =>
            /\ tasks[i].calls = << "get_track_details" >>
            /\ tasks[i].failed_at = 1
            /\ tasks[i].result = "error"
            /\ ~tasks[i].escaped
            /\ tasks[i].pc \notin InOrchestrator
            /\ Len(tasks[i].writes) = 3

\* C25 witness: a run whose lookup found nothing is over, beside a run of
\* another task that went on to the later collaborators.
C25_Witness ==
    \E i, j \in TaskIds :
        /\ LookupFoundNothing(i) /\ tasks[i].pc = "done"
        /\ download_status[tasks[i].track_id].status = "error"
        /\ Len(tasks[j].calls) >= 3 /\ tasks[j].pc = "done"

\* ------------------------------------------------- claims on title_score
\* C26: the stored title score of a candidate whose title misses a trusted
\* token is the base similarity (no containment blend); it is at least 0.85
\* when the whole trusted title is in the candidate's title, and always
\* between 0 and 1.
C26_BlendOnlyWhenAllTokensFound ==
    CallReturned => \A k \in ScoredIds :
        LET res == scoring.results[scoring.scored[k].idx]
            stored == scoring.scored[k].title_s
        IN  /\ (res.hits < TitleTokens /\ ~res.title_in) => stored = Round3(res.sim, 1000)
            /\ res.title_in => stored >= 850
            /\ stored >= 0 /\ stored <= 1000

\* ------------------------------------------------- claims on duration_score
\* C27: the stored duration score of a candidate is 0.5 exactly when the
\* trusted duration is unknown or the candidate's duration text does not
\* parse, and one of 1.0, 0.85, 0.65, 0.35, 0.0 otherwise.
C27_NeutralIffUnknownOrUnparsed ==
    CallReturned => \A k \in ScoredIds :
        LET neutral == ~scoring.trusted.known \/ ~Parses(scoring.scored[k].duration)
        IN  /\ scoring.scored[k].duration_s = 500 <=> neutral
            /\ ~neutral => scoring.scored[k].duration_s \in {1000, 850, 650, 350, 0}

\* the candidates of a returned call scored against the trusted duration
\* 233713 ms whose duration text is "4:10"
ScenarioBDurations ==
    IF CallReturned /\ scoring.trusted.known /\ scoring.trusted.duration_ms = 233713
    THEN {k \in ScoredIds : scoring.scored[k].duration = << "4", "10" >>}
    ELSE {}

\* C28 as stated: for the trusted duration 233713 ms and the candidate
\* duration "4:10" the duration score is 0.85.
C28_ScenarioBDurationIs085 ==
    \A k \in ScenarioBDurations : scoring.scored[k].duration_s = 850

\* C28 amended: for the trusted duration 233713 ms and the candidate duration
\* "4:10" (250 s, delta 16.287 s) the duration score is 0.65.
C28_ScenarioBDurationIs065 ==
    \A k \in ScenarioBDurations : scoring.scored[k].duration_s = 650

\* C28 witness: the piano cover of scenario B was scored against 233713 ms.
C28_Witness ==
    \E k \in ScenarioBDurations :
        scoring.scored[k].video_id = "vB" /\ scoring.scored[k].duration_s = 650

\* ------------------------------------------------- claims on the job records
\* the progress value each processing stage is stored with
StageProgress ==
    [fetching |-> 10, preparing |-> 15, downloading |-> 30, tagging |-> 85, copying |-> 90]

\* C29: every stored JobRecord has a status, a stage, a progress and a
\* message; a queued record has stage queued and progress 0, a processing
\* record one of the five stages with that stage's progress, a completed
\* record stage completed, progress 100 and a file path, and an error record
\* progress 0.
C29_RecordsFullyFormed ==
    \A t \in Tracks :
        LET job == download_status[t] IN
        job # NoJob =>
            /\ job.status \in {"queued", "processing", "completed", "error"}
            /\ job.stage # None
            /\ job.message # None
            /\ job.status = "queued" => job.stage = "queued" /\ job.progress = 0
            /\ job.status = "processing" =>
                   /\ job.stage \in DOMAIN StageProgress
                   /\ job.progress = StageProgress[job.stage]
            /\ job.status = "completed" =>
                   job.stage = "completed" /\ job.progress = 100 /\ job.file_path # None
            /\ job.status = "error" => job.progress = 0

\* ------------------------------------------------- claims on the retrieval URL
\* the filename download_file receives from a request that uses the
\* download_url of job: the transport has decoded the query value once
NameFromUrl(job) == unquote(quote(Basename(job.file_path)))

\* C30: the download_url of every completed local-target JobRecord passes the
\* filename check of download_file: the name the URL carries, decoded by the
\* transport and again by download_file, is the produced file's name, and
\* the request is answered with the file while the file exists.
C30_DownloadUrlRoundTrips ==
    \A t \in Tracks :
        LET job == download_status[t] IN
        (job.status = "completed" /\ job.download_url # None) =>
            /\ unquote(NameFromUrl(job)) = Basename(job.file_path)
            /\ job.file_path \in files => FileRequestCode(job, files, NameFromUrl(job)) = 200

\* ------------------------------------------------- claims on the cleanup
\* C31: download_file schedules cleanup_temp_file only for a file of the
\* staging directory, never for a file placed in the library.
C31_CleanupOnlyForStagedFiles ==
    \A r \in 1 .. Len(retrievals) :
        retrievals[r].cleanup => \E t \in Tracks : retrievals[r].file_path = StagedPath(t)

\* ------------------------------------------------- claims on the album's count
\* C32: the counter download_album_track picks for a member track is
\* completed_tracks exactly when the member's own run of download_and_process
\* ended completed, and failed_tracks otherwise.
C32_CountedByOwnRun ==
    \A i \in TaskIds :
        (tasks[i].kind = "album" /\ tasks[i].counter # None) =>
            (tasks[i].counter = "completed_tracks" <=> tasks[i].result = "completed")

\* ------------------------------------------------- claims on the owning album
\* C33: every record a member run of an album stores, from its first
\* processing record to its terminal one, has album_id equal to the album's
\* id, as the queued record of the submission has.
C33_MemberRecordKeepsAlbumId ==
    [][\A i \in TaskIds :
          ( /\ tasks[i].kind = "album"
            /\ tasks[i].pc \in InOrchestrator
            /\ tasks'[i] # tasks[i]
            /\ download_status'[tasks[i].track_id] # download_status[tasks[i].track_id] )
          => download_status'[tasks[i].track_id].album_id = tasks[i].album_id]_vars

====
